---- MODULE Spec2Model ----
(***************************************************************************)
(* Model of BankingDataProcessor (src/src/data_processor.py): the seven    *)
(* stage pipeline run by process_banking_data over a pandas DataFrame.     *)
(*                                                                         *)
(* Representation                                                          *)
(*   - a DataFrame is [cols, rows]: the set of column names and the        *)
(*     sequence of rows; every row carries its pandas index label (idx),   *)
(*     which filtering preserves;                                          *)
(*   - identifier strings are sequences of tokens, " " being a whitespace  *)
(*     character, so that str.strip() is computed and not assumed;         *)
(*   - amounts are integers in thousandths of a currency unit, or NaN, or  *)
(*     a non-numeric string; rounding to currency_precision = 2 yields a   *)
(*     multiple of 10;                                                     *)
(*   - timestamps are integers in ticks, TicksPerDay ticks to a day; the   *)
(*     variable clock is what datetime.now() returns.                      *)
(***************************************************************************)
EXTENDS Integers, Sequences, FiniteSets, TLC

(***************************************************************************)
(* Bounds of the model.                                                    *)
(***************************************************************************)
MaxBatch == 2

MaxStageBatch == 3

MaxClock == 7

MaxCalls == 2

MaxCallBatch == 1

MaxDetectBatch == 4

MaxTotal == 1020

MaxExcluded == 60
\* rows of a processed file
MaxFileRows == 3
\* executions of the load task on one processed file
MaxLoads == 3

(***************************************************************************)
(* Values.                                                                 *)
(***************************************************************************)
TicksPerDay == 2

Now0 == 6

NoneStr == <<"<None>">>

NoneVal == "<None>"

Num(v) == [k |-> "num", v |-> v]

NaN == [k |-> "null", v |-> 0]

BadAmount == [k |-> "bad", v |-> 0]

Ts(t) == [k |-> "date", v |-> t]

NaT == [k |-> "null", v |-> 0]

BadDate == [k |-> "bad", v |-> 0]

NoZ == [num |-> 0, den |-> 0]

Abs(x) == IF x < 0 THEN -x ELSE x

RECURSIVE SumSeq(_)
SumSeq(s) == IF s = <<>> THEN 0 ELSE Head(s) + SumSeq(Tail(s))

RECURSIVE CountTrue(_)
CountTrue(s) == IF s = <<>> THEN 0 ELSE (IF Head(s) THEN 1 ELSE 0) + CountTrue(Tail(s))

RECURSIVE FilterBy(_, _)
FilterBy(s, keep) ==
    IF s = <<>> THEN <<>>
    ELSE (IF Head(keep) THEN <<Head(s)>> ELSE <<>>) \o FilterBy(Tail(s), Tail(keep))

\* numpy/Python round: to the nearest multiple of unit, ties to the even multiple
RoundHalfEven(n, unit) ==
    LET q == n \div unit
        r == n % unit
    IN  IF 2 * r < unit THEN q
        ELSE IF 2 * r > unit THEN q + 1
        ELSE IF q % 2 = 0 THEN q ELSE q + 1

(***************************************************************************)
(* Configuration (_get_default_config) and the variants used as inputs.    *)
(***************************************************************************)
RequiredColumns == <<"transaction_id", "bank_id", "customer_id", "amount", "transaction_date">>

MaxTransactionAmount == 1000000000

CurrencyUnit == 10

\* a threshold num / den, in standard deviations
Threshold(num, den) == [num |-> num, den |-> den]

DefaultConfig ==
    [ max_transaction_amount |-> MaxTransactionAmount,
      min_transaction_amount |-> 10,
      required_columns       |-> RequiredColumns,
      anomaly_threshold_std  |-> Threshold(3, 1),
      currency_precision     |-> CurrencyUnit,
      remove_duplicates      |-> TRUE,
      handle_outliers        |-> TRUE ]

\* the configurations a processor is constructed with: the default, outlier
\* handling off, and a lower anomaly threshold (0.5)
Configs ==
    { DefaultConfig,
      [DefaultConfig EXCEPT !.handle_outliers = FALSE],
      [DefaultConfig EXCEPT !.anomaly_threshold_std = Threshold(1, 2)] }

\* the default, each switch off, and the anomaly threshold 1.0
StageConfigs ==
    { DefaultConfig,
      [DefaultConfig EXCEPT !.remove_duplicates = FALSE],
      [DefaultConfig EXCEPT !.handle_outliers = FALSE],
      [DefaultConfig EXCEPT !.anomaly_threshold_std = Threshold(1, 1)] }

\* the configurations the anomaly detector is exercised with: the default,
\* outlier handling off, and the anomaly threshold 0.5
DetectConfigs ==
    { DefaultConfig,
      [DefaultConfig EXCEPT !.handle_outliers = FALSE],
      [DefaultConfig EXCEPT !.anomaly_threshold_std = Threshold(1, 2)] }

TransactionTypes == {"TRANSFER", "DEPOSIT", "WITHDRAWAL", "PAYMENT"}

ExcellentMin == 9500

GoodMin == 8500

AcceptableMin == 7500

(***************************************************************************)
(* DataFrames.                                                             *)
(***************************************************************************)
Frame(cols, rows) == [cols |-> cols, rows |-> rows]

EmptyFrame == Frame({}, <<>>)

IsEmpty(df) == df.rows = <<>> \/ df.cols = {}

IsNullStr(s) == s = NoneStr

IsNullAmount(a) == a.k = "null"

IsNullDate(d) == d.k = "null"

IdxOf(df) == {df.rows[i].idx : i \in 1..Len(df.rows)}

\* isnull() of one cell of column col
CellIsNull(r, col) ==
    CASE col = "transaction_id"   -> IsNullStr(r.transaction_id)
      [] col = "bank_id"          -> IsNullStr(r.bank_id)
      [] col = "customer_id"      -> IsNullStr(r.customer_id)
      [] col = "amount"           -> IsNullAmount(r.amount)
      [] col = "transaction_date" -> IsNullDate(r.transaction_date)
      [] col = "transaction_type" -> r.transaction_type = NoneVal
      [] col = "description"      -> r.description = NoneVal
      [] OTHER                    -> FALSE

(***************************************************************************)
(* validate_schema                                                         *)
(***************************************************************************)
MissingCols(df, config) ==
    LET req == config.required_columns
    IN  FilterBy(req, [i \in 1..Len(req) |-> req[i] \notin df.cols])

\* variant: the emptiness check (lines 79-80) left out
ValidateSchemaNoEmptyCheck(df, config) ==
    LET missing_cols == MissingCols(df, config)
        errors == IF missing_cols # <<>>
                  THEN << [msg |-> "Missing required columns", cols |-> missing_cols] >>
                  ELSE <<>>
    IN  [is_valid |-> Len(errors) = 0, errors |-> errors]

ValidateSchema(df, config) ==
    LET missing_cols == MissingCols(df, config)
        errors == (IF missing_cols # <<>>
                      THEN << [msg |-> "Missing required columns", cols |-> missing_cols] >>
                      ELSE <<>>)
                  \o (IF IsEmpty(df)
                      THEN << [msg |-> "Dataframe is empty", cols |-> <<>>] >>
                      ELSE <<>>)
    IN  [is_valid |-> Len(errors) = 0, errors |-> errors]

(***************************************************************************)
(* clean_null_values                                                       *)
(***************************************************************************)
CriticalFields == <<"bank_id", "customer_id", "amount">>

\* variant: a record is dropped only when all critical fields are missing
HasNullCriticalAll(r) == \A i \in 1..Len(CriticalFields) : CellIsNull(r, CriticalFields[i])

HasNullCritical(r) == \E i \in 1..Len(CriticalFields) : CellIsNull(r, CriticalFields[i])

FillOptional(r, cols) ==
    [r EXCEPT !.transaction_type =
                  IF "transaction_type" \in cols /\ @ = NoneVal THEN "UNKNOWN" ELSE @,
              !.description =
                  IF "description" \in cols /\ @ = NoneVal THEN "No description" ELSE @]

CleanNullValues(df) ==
    LET kept == FilterBy(df.rows, [i \in 1..Len(df.rows) |-> ~HasNullCritical(df.rows[i])])
    IN  Frame(df.cols, [i \in 1..Len(kept) |-> FillOptional(kept[i], df.cols)])

(***************************************************************************)
(* validate_column_types                                                   *)
(***************************************************************************)
\* pd.to_numeric(errors='coerce'): a non-numeric value becomes NaN
ToNumeric(a) == IF a.k = "num" THEN a ELSE NaN

\* pd.to_datetime(errors='coerce'): a missing or unparseable value becomes NaT
ToDatetime(d) == IF d.k = "date" THEN d ELSE NaT

RoundAmount(a, config) ==
    IF a.k = "num"
    THEN Num(RoundHalfEven(a.v, config.currency_precision) * config.currency_precision)
    ELSE a

\* astype(str): None becomes the string 'None'
AsStr(s) == IF s = NoneStr THEN <<"None">> ELSE s

RECURSIVE LStrip(_)
LStrip(s) == IF s # <<>> /\ Head(s) = " " THEN LStrip(Tail(s)) ELSE s

RECURSIVE RStrip(_)
RStrip(s) == IF s # <<>> /\ s[Len(s)] = " " THEN RStrip(SubSeq(s, 1, Len(s) - 1)) ELSE s

Strip(s) == RStrip(LStrip(s))

\* lines 124-130: coerce amount, drop the rows where the conversion failed
CoerceAmounts(rows) ==
    LET Coerce(r) == [r EXCEPT !.amount = ToNumeric(@)]
        NotNull(r) == ~IsNullAmount(r.amount)
        coerced == [i \in 1..Len(rows) |-> Coerce(rows[i])]
    IN  FilterBy(coerced, [i \in 1..Len(coerced) |-> NotNull(coerced[i])])

AmountInRange(a, config) == a.v > 0 /\ a.v <= config.max_transaction_amount

\* lines 133-144: keep 0 < amount <= max_transaction_amount
FilterAmountRange(rows, config) ==
    LET InRange(r) == AmountInRange(r.amount, config)
    IN  FilterBy(rows, [i \in 1..Len(rows) |-> InRange(rows[i])])

\* lines 147-148
RoundAmounts(rows, config) ==
    LET Rnd(r) == [r EXCEPT !.amount = RoundAmount(@, config)]
    IN  [i \in 1..Len(rows) |-> Rnd(rows[i])]

IsFuture(d, now) == d.k = "date" /\ d.v > now

NotAfter(d, now) == d.k = "date" /\ d.v <= now

\* variant: the filter applied only when more than one date is in the future
FilterDatesOffByOne(rows, cols, now1, now2) ==
    IF "transaction_date" \notin cols THEN rows
    ELSE LET Coerce(r) == [r EXCEPT !.transaction_date = ToDatetime(@)]
             coerced == [i \in 1..Len(rows) |-> Coerce(rows[i])]
             future_dates ==
                 CountTrue([i \in 1..Len(coerced) |-> IsFuture(coerced[i].transaction_date, now1)])
             Keep(r) == NotAfter(r.transaction_date, now2)
         IN  IF future_dates > 1 THEN FilterBy(coerced, [i \in 1..Len(coerced) |-> Keep(coerced[i])]) ELSE coerced

\* lines 151-162: now1 and now2 are the two readings of datetime.now()
FilterDates(rows, cols, now1, now2) ==
    IF "transaction_date" \notin cols THEN rows
    ELSE LET Coerce(r) == [r EXCEPT !.transaction_date = ToDatetime(@)]
             coerced == [i \in 1..Len(rows) |-> Coerce(rows[i])]
             future_dates ==
                 CountTrue([i \in 1..Len(coerced) |-> IsFuture(coerced[i].transaction_date, now1)])
             Keep(r) == NotAfter(r.transaction_date, now2)
         IN  IF future_dates > 0 THEN FilterBy(coerced, [i \in 1..Len(coerced) |-> Keep(coerced[i])]) ELSE coerced

\* lines 165-170, one field after the other
CleanStringField(rows, cols, field) ==
    IF field \notin cols THEN rows
    ELSE LET Clean(r) == [r EXCEPT ![field] = Strip(AsStr(@))]
             NonEmpty(r) == r[field] # <<>>
             cleaned == [i \in 1..Len(rows) |-> Clean(rows[i])]
         IN  FilterBy(cleaned, [i \in 1..Len(cleaned) |-> NonEmpty(cleaned[i])])

CleanStrings(rows, cols) ==
    CleanStringField(
        CleanStringField(
            CleanStringField(rows, cols, "bank_id"),
            cols, "customer_id"),
        cols, "transaction_id")

\* lines 173-178
FixTransactionTypes(rows, cols) ==
    IF "transaction_type" \notin cols THEN rows
    ELSE LET Fix(r) == [r EXCEPT !.transaction_type =
                            IF @ \in TransactionTypes \cup {"UNKNOWN"} THEN @ ELSE "UNKNOWN"]
         IN  [i \in 1..Len(rows) |-> Fix(rows[i])]

ValidateColumnTypes(df, config, now1, now2) ==
    LET ranged  == FilterAmountRange(CoerceAmounts(df.rows), config)
        rounded == RoundAmounts(ranged, config)
        dated   == FilterDates(rounded, df.cols, now1, now2)
        strs    == CleanStrings(dated, df.cols)
    IN  Frame(df.cols, FixTransactionTypes(strs, df.cols))

(***************************************************************************)
(* detect_duplicates                                                       *)
(***************************************************************************)
DuplicateColumns == <<"bank_id", "customer_id", "amount", "transaction_date">>

AvailableColumns(cols) ==
    FilterBy(DuplicateColumns, [i \in 1..Len(DuplicateColumns) |-> DuplicateColumns[i] \in cols])

\* the identity key of a row; pandas treats two missing values as equal
KeyOf(r, cols) ==
    LET av == AvailableColumns(cols) IN [i \in 1..Len(av) |-> r[av[i]]]

\* variant: keep='last'
DuplicatedKeepLast(df) ==
    [i \in 1..Len(df.rows) |->
        \E j \in (i + 1)..Len(df.rows) : KeyOf(df.rows[j], df.cols) = KeyOf(df.rows[i], df.cols)]

\* variant: only the first repeated row is marked
DuplicatedFirstOnly(df) ==
    LET Repeats(i) == \E j \in 1..(i - 1) : KeyOf(df.rows[j], df.cols) = KeyOf(df.rows[i], df.cols)
    IN  [i \in 1..Len(df.rows) |-> Repeats(i) /\ \A h \in 1..(i - 1) : ~Repeats(h)]

\* DataFrame.duplicated(subset, keep='first')
Duplicated(df) ==
    [i \in 1..Len(df.rows) |->
        \E j \in 1..(i - 1) : KeyOf(df.rows[j], df.cols) = KeyOf(df.rows[i], df.cols)]

\* variant: no record is removed
DetectDuplicatesKeepsAll(df, config) == df

DetectDuplicates(df, config) ==
    IF ~config.remove_duplicates THEN df
    ELSE LET duplicates == Duplicated(df)
             duplicate_count == CountTrue(duplicates)
         IN  IF duplicate_count > 0
             THEN Frame(df.cols, FilterBy(df.rows, [i \in 1..Len(df.rows) |-> ~duplicates[i]]))
             ELSE df

(***************************************************************************)
(* detect_anomalies                                                        *)
(***************************************************************************)
\* variant: the statistics taken over the whole batch, not per bank
GroupAmountsAllBanks(rows, b) == [i \in 1..Len(rows) |-> rows[i].amount.v]

\* amounts of the rows that share bank_id b (groupby drops missing keys)
GroupAmounts(rows, b) ==
    LET InGroup(r) == r.bank_id = b
        grp == FilterBy(rows, [i \in 1..Len(rows) |-> InGroup(rows[i])])
    IN  [i \in 1..Len(grp) |-> grp[i].amount.v]

RECURSIVE Gcd(_, _)
Gcd(a, b) == IF b = 0 THEN a ELSE Gcd(b, a % b)

RECURSIVE GcdSeq(_)
GcdSeq(s) == IF s = <<>> THEN 0 ELSE Gcd(Head(s), GcdSeq(Tail(s)))

\* the z-score |x - mean| / std of x in xs (sample std), kept exact as the
\* fraction z^2 = num / den; 0 when std is 0 or undefined (NaN > 0 is False).
\* With n = len(xs) and S = sum(xs): x - mean = (n x - S) / n and
\* std^2 = sum (n x_i - S)^2 / (n^2 (n - 1)); the deviations n x_i - S are
\* divided by their common divisor g, which leaves the fraction unchanged
\* variant: the deviation divided by the population standard deviation
ZScorePopulation(x, xs) ==
    LET n  == Len(xs)
        S  == SumSeq(xs)
        g  == GcdSeq([i \in 1..n |-> Abs(n * xs[i] - S)])
        D(v) == (n * v - S) \div g
        Q  == SumSeq([i \in 1..n |-> D(xs[i]) * D(xs[i])])
    IN  IF n >= 2 /\ g > 0
        THEN [num |-> D(x) * D(x) * n, den |-> Q]
        ELSE [num |-> 0, den |-> 1]

ZScore(x, xs) ==
    LET n  == Len(xs)
        S  == SumSeq(xs)
        g  == GcdSeq([i \in 1..n |-> Abs(n * xs[i] - S)])
        D(v) == (n * v - S) \div g
        Q  == SumSeq([i \in 1..n |-> D(xs[i]) * D(xs[i])])
    IN  IF n >= 2 /\ g > 0
        THEN [num |-> D(x) * D(x) * (n - 1), den |-> Q]
        ELSE [num |-> 0, den |-> 1]

\* the column amount_zscore; a row whose bank_id is missing gets NaN
WithZScores(rows) ==
    LET Score(r) == [r EXCEPT !.amount_zscore =
                        IF IsNullStr(r.bank_id) THEN NoZ
                        ELSE ZScore(r.amount.v, GroupAmounts(rows, r.bank_id))]
    IN  [i \in 1..Len(rows) |-> Score(rows[i])]

\* z > threshold and z <= threshold; both are False for a NaN z-score
ZAbove(z, threshold) ==
    z.den > 0 /\ z.num * threshold.den * threshold.den > threshold.num * threshold.num * z.den

\* variant: the normal set selected with the default threshold, not the configured one
ZAtMostDefault(z, threshold) ==
    z.den > 0 /\ z.num <= DefaultConfig.anomaly_threshold_std.num
                            * DefaultConfig.anomaly_threshold_std.num * z.den

ZAtMost(z, threshold) ==
    z.den > 0 /\ z.num * threshold.den * threshold.den <= threshold.num * threshold.num * z.den

\* variant: the outliers are reported but left in the normal set
DetectAnomaliesKeepsOutliers(df, config, now) ==
    IF ~config.handle_outliers
    THEN [normal |-> df, anomalies |-> EmptyFrame, input |-> df]
    ELSE LET scored == WithZScores(df.rows)
             zcols == df.cols \cup {"amount_zscore"}
             Above(r) == ZAbove(r.amount_zscore, config.anomaly_threshold_std)
             Tag(r) == [r EXCEPT !.anomaly_type = "statistical_outlier", !.detected_at = now]
             anom == FilterBy(scored, [i \in 1..Len(scored) |-> Above(scored[i])])
         IN  [normal    |-> df,
              anomalies |-> Frame(zcols \cup {"anomaly_type", "detected_at"},
                                  [i \in 1..Len(anom) |-> Tag(anom[i])]),
              input     |-> Frame(zcols, scored)]

\* returns the normal set, the anomaly set and the input frame as the call
\* leaves it (the column amount_zscore is added to it in place)
DetectAnomalies(df, config, now) ==
    IF ~config.handle_outliers
    THEN [normal |-> df, anomalies |-> EmptyFrame, input |-> df]
    ELSE LET threshold == config.anomaly_threshold_std
             scored == WithZScores(df.rows)
             zcols == df.cols \cup {"amount_zscore"}
             Above(r) == ZAbove(r.amount_zscore, threshold)
             AtMost(r) == ZAtMost(r.amount_zscore, threshold)
             Untag(r) == [r EXCEPT !.amount_zscore = NoZ]
             Tag(r) == [r EXCEPT !.anomaly_type = "statistical_outlier", !.detected_at = now]
             anom == FilterBy(scored, [i \in 1..Len(scored) |-> Above(scored[i])])
             norm == FilterBy(scored, [i \in 1..Len(scored) |-> AtMost(scored[i])])
         IN  [normal    |-> Frame(zcols \ {"amount_zscore"}, [i \in 1..Len(norm) |-> Untag(norm[i])]),
              anomalies |-> IF Len(anom) > 0
                            THEN Frame(zcols \cup {"anomaly_type", "detected_at"}, [i \in 1..Len(anom) |-> Tag(anom[i])])
                            ELSE Frame(zcols, anom),
              input     |-> Frame(zcols, scored)]

(***************************************************************************)
(* generate_quality_report                                                 *)
(* quality_score is kept in hundredths of a percent (95.00 is 9500).       *)
(***************************************************************************)
NoReport ==
    [ set |-> FALSE, total_records |-> 0, valid_records |-> 0, null_records |-> 0,
      invalid_amounts |-> 0, duplicate_records |-> 0, quality_score |-> 0,
      quality_level |-> "NONE", anomaly_count |-> 0, processing_timestamp |-> 0 ]

\* variant: the score truncated to two decimals instead of rounded
QualityScoringTruncated(valid_records, total_records) ==
    LET AtLeast(min) == total_records > 0 /\ valid_records * 10000 >= min * total_records
    IN  [ quality_score |-> IF total_records > 0
                            THEN (valid_records * 10000) \div total_records
                            ELSE 0,
          quality_level |-> IF AtLeast(ExcellentMin) THEN "EXCELLENT"
                            ELSE IF AtLeast(GoodMin) THEN "GOOD"
                            ELSE IF AtLeast(AcceptableMin) THEN "ACCEPTABLE"
                            ELSE "POOR" ]

\* lines 265-276 and 284: the level is decided on the unrounded score
\* valid_records / total_records * 100, the field holds round(score, 2)
QualityScoring(valid_records, total_records) ==
    LET AtLeast(min) == total_records > 0 /\ valid_records * 10000 >= min * total_records
    IN  [ quality_score |-> IF total_records > 0
                            THEN RoundHalfEven(valid_records * 10000, total_records)
                            ELSE 0,
          quality_level |-> IF AtLeast(ExcellentMin) THEN "EXCELLENT"
                            ELSE IF AtLeast(GoodMin) THEN "GOOD"
                            ELSE IF AtLeast(AcceptableMin) THEN "ACCEPTABLE"
                            ELSE "POOR" ]

NullRecords(original_df, config) ==
    LET req == config.required_columns
    IN  SumSeq([c \in 1..Len(req) |->
            IF req[c] \in original_df.cols
            THEN CountTrue([i \in 1..Len(original_df.rows) |-> CellIsNull(original_df.rows[i], req[c])])
            ELSE 0])

InvalidAmounts(original_df) ==
    IF "amount" \in original_df.cols
    THEN CountTrue([i \in 1..Len(original_df.rows) |->
                        IsNullAmount(ToNumeric(original_df.rows[i].amount))])
    ELSE 0

\* variant: valid_records counts the records of the input batch
GenerateQualityReportCountingInput(original_df, cleaned_df, anomalies_df, config, now) ==
    LET total_records == Len(original_df.rows)
        valid_records == Len(original_df.rows)
        scoring == QualityScoring(valid_records, total_records)
    IN  [ set                  |-> TRUE,
          total_records        |-> total_records,
          valid_records        |-> valid_records,
          null_records         |-> NullRecords(original_df, config),
          invalid_amounts      |-> InvalidAmounts(original_df),
          duplicate_records    |-> CountTrue(Duplicated(original_df)),
          quality_score        |-> scoring.quality_score,
          quality_level        |-> scoring.quality_level,
          anomaly_count        |-> Len(anomalies_df.rows),
          processing_timestamp |-> now ]

GenerateQualityReport(original_df, cleaned_df, anomalies_df, config, now) ==
    LET total_records == Len(original_df.rows)
        valid_records == Len(cleaned_df.rows)
        scoring == QualityScoring(valid_records, total_records)
    IN  [ set                  |-> TRUE,
          total_records        |-> total_records,
          valid_records        |-> valid_records,
          null_records         |-> NullRecords(original_df, config),
          invalid_amounts      |-> InvalidAmounts(original_df),
          duplicate_records    |-> CountTrue(Duplicated(original_df)),
          quality_score        |-> scoring.quality_score,
          quality_level        |-> scoring.quality_level,
          anomaly_count        |-> Len(anomalies_df.rows),
          processing_timestamp |-> now ]

(***************************************************************************)
(* aggregate_daily_transactions                                            *)
(***************************************************************************)
AggregateNames ==
    << "total_volume", "transaction_count", "avg_transaction_value",
       "std_transaction_value", "median_transaction_value",
       "min_transaction_value", "max_transaction_value",
       "unique_customers", "unique_transaction_ids" >>

\* lines 304-312: the number of columns the aggregation produces
AggregatedColumnCount(cols) == 7 + 1 + 1 + (IF "transaction_type" \in cols THEN 1 ELSE 0)

\* line 318: assigning the nine names raises ValueError (length mismatch)
\* when the aggregation produced another number of columns
AggregationRaises(df) == AggregatedColumnCount(df.cols) # Len(AggregateNames)

\* line 301: .dt.date keeps the day of a timestamp
ToDay(d) == IF d.k = "date" THEN [k |-> "day", v |-> d.v \div TicksPerDay] ELSE d

WithDays(df) ==
    IF "transaction_date" \in df.cols
    THEN LET Day(r) == [r EXCEPT !.transaction_date = ToDay(@)]
         IN  Frame(df.cols, [i \in 1..Len(df.rows) |-> Day(df.rows[i])])
    ELSE df

\* groupby(['bank_id', 'transaction_date']) drops the rows with a missing key
GroupKeys(rows) ==
    { <<rows[i].bank_id, rows[i].transaction_date>> :
        i \in {j \in 1..Len(rows) : ~IsNullStr(rows[j].bank_id) /\ ~IsNullDate(rows[j].transaction_date)} }

GroupRows(rows, key) ==
    LET InGroup(r) == r.bank_id = key[1] /\ r.transaction_date = key[2]
    IN  FilterBy(rows, [i \in 1..Len(rows) |-> InGroup(rows[i])])

SeqMin(xs) == CHOOSE x \in {xs[i] : i \in 1..Len(xs)} : \A i \in 1..Len(xs) : x <= xs[i]

SeqMax(xs) == CHOOSE x \in {xs[i] : i \in 1..Len(xs)} : \A i \in 1..Len(xs) : x >= xs[i]

\* x / y rounded to two decimals, x in thousandths (a multiple of CurrencyUnit)
RoundedRatio(x, y) == RoundHalfEven(x, y * CurrencyUnit) * CurrencyUnit

\* the k-th smallest of xs
KthSmallest(xs, k) ==
    CHOOSE x \in {xs[i] : i \in 1..Len(xs)} :
        /\ CountTrue([i \in 1..Len(xs) |-> xs[i] < x]) < k
        /\ CountTrue([i \in 1..Len(xs) |-> xs[i] <= x]) >= k

\* 'median' of the group, rounded to two decimals (lines 350-351)
Median(xs) ==
    LET n == Len(xs)
    IN  RoundedRatio(KthSmallest(xs, (n + 1) \div 2) + KthSmallest(xs, n \div 2 + 1), 2)

\* 'std' of the group, the sample standard deviation, NaN for one record;
\* kept exact as std = scale / n * sqrt(q / (n - 1)), scale being the
\* common divisor of the deviations n x_i - S and q the sum of the squares
\* of the deviations divided by it; the root is not taken nor rounded
NoStd == [k |-> "null", scale |-> 0, q |-> 0, n |-> 0]

ZeroStd == [k |-> "num", scale |-> 0, q |-> 0, n |-> 0]

Std(xs) ==
    LET n == Len(xs)
        S == SumSeq(xs)
        g == GcdSeq([i \in 1..n |-> Abs(n * xs[i] - S)])
        D(v) == (n * v - S) \div g
    IN  IF n < 2 THEN NoStd
        ELSE IF g = 0 THEN ZeroStd
        ELSE [k |-> "num", scale |-> g, q |-> SumSeq([i \in 1..n |-> D(xs[i]) * D(xs[i])]), n |-> n]

\* variant: undefined values are left in the output
FillNaSkipped(v) == v

\* line 347: fillna(0)
FillNa(v) == IF v.k = "null" THEN ZeroStd ELSE v

\* lines 333-339 and 346-347: x / y rounded to two decimals; x / 0 is
\* infinite, replaced by NaN and then by 0
Ratio(x, y) == IF y = 0 THEN 0 ELSE RoundedRatio(x, y)

\* lines 325-328: value_counts().to_dict() of the group's transaction_type,
\* the count of each type that occurs; no entry without the column
ValueCounts(grp, has_type) ==
    LET types == IF has_type THEN {grp[i].transaction_type : i \in 1..Len(grp)} ELSE {}
    IN  [ty \in types |-> CountTrue([i \in 1..Len(grp) |-> grp[i].transaction_type = ty])]

AggregateRow(rows, key, has_type, score, now) ==
    LET grp == GroupRows(rows, key)
        xs == [i \in 1..Len(grp) |-> grp[i].amount.v]
        total_volume == SumSeq(xs)
        transaction_count == Len(grp)
        unique_customers == Cardinality({grp[i].customer_id : i \in 1..Len(grp)})
    IN  [ bank_id                       |-> key[1],
          transaction_date              |-> key[2],
          total_volume                  |-> total_volume,
          transaction_count             |-> transaction_count,
          avg_transaction_value         |-> RoundedRatio(total_volume, transaction_count),
          std_transaction_value         |-> FillNa(Std(xs)),
          median_transaction_value      |-> Median(xs),
          min_transaction_value         |-> SeqMin(xs),
          max_transaction_value         |-> SeqMax(xs),
          unique_customers              |-> unique_customers,
          unique_transaction_ids        |-> Cardinality({grp[i].transaction_id : i \in 1..Len(grp)}),
          transaction_type_breakdown    |-> ValueCounts(grp, has_type),
          avg_transactions_per_customer |-> Ratio(transaction_count * 1000, unique_customers) \div CurrencyUnit,
          avg_value_per_customer        |-> Ratio(total_volume, unique_customers),
          processed_at                  |-> now,
          data_quality_score            |-> score ]

\* variant: every row is stamped with the default score 100.0
AggregateDailyTransactionsDefaultScore(df, stored_report, now) ==
    { AggregateRow(df.rows, key, "transaction_type" \in df.cols, 10000, now) :
        key \in GroupKeys(df.rows) }

\* the rows of daily_agg, one per group; df already holds days (line 301)
AggregateDailyTransactions(df, stored_report, now) ==
    LET score == IF stored_report.set THEN stored_report.quality_score ELSE 10000
    IN  { AggregateRow(df.rows, key, "transaction_type" \in df.cols, score, now) :
            key \in GroupKeys(df.rows) }

(***************************************************************************)
(* Input batches.                                                          *)
(***************************************************************************)
Txn(t, b, c, a, d, ty, de) ==
    [ idx |-> 0, transaction_id |-> t, bank_id |-> b, customer_id |-> c, amount |-> a,
      transaction_date |-> d, transaction_type |-> ty, description |-> de,
      amount_zscore |-> NoZ, anomaly_type |-> NoneVal, detected_at |-> 0 ]

Nominal == Txn(<<"T1">>, <<"B1">>, <<"C1">>, Num(100), Ts(2), "DEPOSIT", "d")

TooLarge == MaxTransactionAmount + 1

\* the nominal record and every record that differs from it in one field
Transactions ==
    {Nominal}
    \cup {[Nominal EXCEPT !.bank_id = b] : b \in {NoneStr, <<" ">>}}
    \cup {[Nominal EXCEPT !.customer_id = NoneStr]}
    \cup {[Nominal EXCEPT !.amount = a] :
            a \in {NaN, BadAmount, Num(-5000), Num(4), Num(104), Num(1500), Num(TooLarge)}}
    \cup {[Nominal EXCEPT !.transaction_date = d] :
            d \in {NaT, BadDate, Ts(Now0 + 1), Ts(Now0 + 2)}}
    \cup {[Nominal EXCEPT !.transaction_type = ty] : ty \in {NoneVal, "BOGUS"}}
    \cup {[Nominal EXCEPT !.description = NoneVal]}

\* clean records of two banks, for the stages after the normalizer
StageTransactions ==
    { [Nominal EXCEPT !.bank_id = bc[1], !.customer_id = bc[2], !.amount = a] :
        bc \in { <<<<"B1">>, <<"C1">>>>, <<<<"B1">>, <<"C2">>>>, <<<<"B2">>, <<"C1">>>> },
        a \in {Num(100), Num(1500)} }

\* the records used when one processor is called several times
CallTransactions ==
    { [Nominal EXCEPT !.amount = a, !.transaction_date = d] :
        a \in {Num(100), Num(-5000)}, d \in {Ts(2), Ts(Now0 + 1)} }

\* typed records of two banks: three customers of one bank with the same
\* amount, and a larger amount in either bank
DetectTransactions ==
    { [Nominal EXCEPT !.bank_id = t[1], !.customer_id = t[2], !.amount = Num(t[3])] :
        t \in { << <<"B1">>, <<"C1">>, 100 >>, << <<"B1">>, <<"C2">>, 100 >>,
                << <<"B1">>, <<"C3">>, 100 >>, << <<"B1">>, <<"C1">>, 1500 >>,
                << <<"B2">>, <<"C1">>, 100 >>, << <<"B2">>, <<"C1">>, 1500 >> } }

\* the batches one processor is run on again and again: a valid record, alone
\* or followed by a record with a negative amount, by one with a larger
\* amount or by one dated a tick after the processor's construction, and no
\* record at all
RunRows ==
    { <<>>,
      <<Nominal>>,
      <<Nominal, [Nominal EXCEPT !.amount = Num(-5000)]>>,
      <<Nominal, [Nominal EXCEPT !.amount = Num(1500)]>>,
      <<Nominal, [Nominal EXCEPT !.transaction_date = Ts(Now0 + 1)]>> }

OptionalColumns == {"transaction_type", "description"}

Required == {RequiredColumns[i] : i \in 1..Len(RequiredColumns)}

ColumnSets ==
    {Required, Required \cup OptionalColumns, {}} \cup {Required \ {c} : c \in Required}

\* a record as a row of a frame with the columns cols
Project(t, cols) ==
    [ t EXCEPT !.transaction_id   = IF "transaction_id" \in cols THEN @ ELSE NoneStr,
               !.bank_id          = IF "bank_id" \in cols THEN @ ELSE NoneStr,
               !.customer_id      = IF "customer_id" \in cols THEN @ ELSE NoneStr,
               !.amount           = IF "amount" \in cols THEN @ ELSE NaN,
               !.transaction_date = IF "transaction_date" \in cols THEN @ ELSE NaT,
               !.transaction_type = IF "transaction_type" \in cols THEN @ ELSE NoneVal,
               !.description      = IF "description" \in cols THEN @ ELSE NoneVal ]

\* the frames of at most maxlen rows drawn from universe, indexed 0, 1, ...
Batches(universe, maxlen) ==
    UNION { { Frame(cols, [i \in 1..n |-> [rows[i] EXCEPT !.idx = i - 1]]) :
                rows \in [1..n -> {Project(t, cols) : t \in universe}] } :
            n \in 0..maxlen, cols \in ColumnSets }

(***************************************************************************)
(* The worked examples: a same-bank group of twenty records, nineteen of   *)
(* mean 100 and sample std 10 (nine of 90, nine of 110, one of 100) plus   *)
(* one further amount; and three records of one bank and day of which the  *)
(* first two share the transaction_id, the third possibly of another day.  *)
(***************************************************************************)
Amount(units) == Num(units * 1000)

Customer(i) == <<"C", ToString(i)>>

GroupAmount(i) == IF i <= 9 THEN 90 ELSE IF i <= 18 THEN 110 ELSE 100

\* the last amount of the group of twenty
ExampleOutliers == {130, 150, 500}

GroupOfTwenty(last) ==
    [i \in 1..20 |->
        [Txn(<<"T", ToString(i)>>, <<"BNK001">>, Customer(i),
             Amount(IF i <= 19 THEN GroupAmount(i) ELSE last), Ts(2), "DEPOSIT", "d")
         EXCEPT !.idx = i - 1]]

ThreeRecords(customer2, amount3, date3) ==
    << [Txn(<<"T", "1">>, <<"BNK001">>, Customer(1), Amount(100), Ts(2), "DEPOSIT", "d") EXCEPT !.idx = 0],
       [Txn(<<"T", "1">>, <<"BNK001">>, customer2, Amount(100), Ts(2), "DEPOSIT", "d") EXCEPT !.idx = 1],
       [Txn(<<"T", "2">>, <<"BNK001">>, Customer(2), Amount(amount3), date3, "DEPOSIT", "d") EXCEPT !.idx = 2] >>

\* the same group, the amount of its first record being negative
GroupWithRejected(last) ==
    [GroupOfTwenty(last) EXCEPT ![1].amount = Num(-5000)]

ExampleRows ==
    {GroupOfTwenty(last) : last \in ExampleOutliers}
    \cup {GroupWithRejected(500)}
    \cup {ThreeRecords(Customer(c), a, d) :
            c \in {1, 2, 3}, a \in {100, 5000}, d \in {Ts(2), Ts(4)}}

\* a worked example with each set of columns
ExampleBatches ==
    { Frame(cols, [i \in 1..Len(rows) |-> Project(rows[i], cols)]) :
        rows \in ExampleRows, cols \in ColumnSets }

(***************************************************************************)
(* The processor and one call of process_banking_data, stage by stage.     *)
(***************************************************************************)
VARIABLES
    config,               \* self.config
    self_quality_report,  \* self.quality_report
    clock,                \* datetime.now()
    calls,                \* number of calls of process_banking_data so far
    pc,                   \* position of the current call
    df,                   \* the caller's batch
    original_df, df_clean, df_typed, df_deduped, df_final, anomalies_df,
    quality_report,       \* the report of the current call
    aggregated_data,      \* the rows of the aggregate frame
    errors,               \* the violations carried by the raised error
    prior_report,         \* self.quality_report when the current call began
    started,              \* datetime.now() when the current call began
    previous,             \* the processor as the call before the current one left it
    other,                \* a second processor, while it is not the one taking a step
    total_in, valid_in, scoring,  \* inputs and result of the score computation alone
    daily_bank_aggregates,  \* the rows of the MySQL table
    auto_increment,       \* the next value of the table's id column
    processed_data,       \* the rows of the processed file load_to_mysql reads
    load_pc,              \* position of the load task
    load_row,             \* the row df.iterrows() has reached
    try_number            \* executions of the load task so far

\* the state of the load task and of the table it writes
loader == << daily_bank_aggregates, auto_increment, processed_data, load_pc, load_row,
             try_number >>

vars == << loader, config, self_quality_report, clock, calls, pc, df, original_df, df_clean,
           df_typed, df_deduped, df_final, anomalies_df, quality_report,
           aggregated_data, errors, prior_report, started, previous, other,
           total_in, valid_in, scoring >>

\* the state one processor and its current call own
ProcessorState ==
    [ config |-> config, self_quality_report |-> self_quality_report, calls |-> calls,
      pc |-> pc, df |-> df, original_df |-> original_df, df_clean |-> df_clean,
      df_typed |-> df_typed, df_deduped |-> df_deduped, df_final |-> df_final,
      anomalies_df |-> anomalies_df, quality_report |-> quality_report,
      aggregated_data |-> aggregated_data, errors |-> errors,
      prior_report |-> prior_report, started |-> started ]

NoProcessor == [pc |-> "none"]

NoScoring == [quality_score |-> 0, quality_level |-> "NONE"]

Constructed(configs) ==
    /\ config \in configs
    /\ self_quality_report = NoReport
    /\ clock = Now0
    /\ calls = 0
    /\ pc = "idle"
    /\ df = EmptyFrame
    /\ original_df = EmptyFrame
    /\ df_clean = EmptyFrame
    /\ df_typed = EmptyFrame
    /\ df_deduped = EmptyFrame
    /\ df_final = EmptyFrame
    /\ anomalies_df = EmptyFrame
    /\ quality_report = NoReport
    /\ aggregated_data = {}
    /\ errors = <<>>
    /\ prior_report = NoReport
    /\ started = Now0
    /\ previous = NoProcessor
    /\ total_in = 0
    /\ valid_in = 0
    /\ scoring = NoScoring

\* the load task has not run, the table does not hold any row
LoaderIdle ==
    /\ daily_bank_aggregates = <<>>
    /\ auto_increment = 1
    /\ processed_data = <<>>
    /\ load_pc = "idle"
    /\ load_row = 0
    /\ try_number = 0

\* one processor only
InitWith(configs) == Constructed(configs) /\ other = NoProcessor /\ LoaderIdle

Init == InitWith(Configs)

InitStages == InitWith(StageConfigs)

\* a caller invokes process_banking_data(batch); line 365 copies the batch
Invoke(batches, limit) ==
    /\ pc \in {"idle", "done", "raised"}
    /\ calls < limit
    /\ \E batch \in batches, now \in clock..MaxClock :
        /\ calls = 0 => now = clock
        /\ df' = batch
        /\ original_df' = batch
        /\ clock' = now
        /\ started' = now
    /\ calls' = calls + 1
    /\ pc' = "start"
    /\ df_clean' = EmptyFrame
    /\ df_typed' = EmptyFrame
    /\ df_deduped' = EmptyFrame
    /\ df_final' = EmptyFrame
    /\ anomalies_df' = EmptyFrame
    /\ quality_report' = NoReport
    /\ aggregated_data' = {}
    /\ errors' = <<>>
    /\ UNCHANGED << loader, other, config, total_in, valid_in, scoring >>

Call(batches, limit) ==
    /\ Invoke(batches, limit)
    /\ prior_report' = self_quality_report
    /\ UNCHANGED << self_quality_report, previous >>

\* the same, the outcome of the call that ended being kept for comparison;
\* the call is made on the same processor or on one newly constructed with
\* the same configuration (line 53: its quality_report is None)
CallKeeping(batches, limit) ==
    /\ Invoke(batches, limit)
    /\ \E fresh \in BOOLEAN :
        /\ self_quality_report' = IF fresh THEN NoReport ELSE self_quality_report
        /\ prior_report' = self_quality_report'
    /\ previous' = ProcessorState

\* lines 368-370, schema accepted
SchemaValid ==
    /\ pc = "start"
    /\ ValidateSchema(df, config).is_valid
    /\ pc' = "validated"
    /\ UNCHANGED << loader, started, previous, other, config, self_quality_report, clock, calls, df, original_df, df_clean,
                    df_typed, df_deduped, df_final, anomalies_df, quality_report,
                    aggregated_data, errors, prior_report, total_in, valid_in, scoring >>

\* lines 368-370, raise ValueError("Schema validation failed: ...")
SchemaInvalid ==
    /\ pc = "start"
    /\ ~ValidateSchema(df, config).is_valid
    /\ errors' = ValidateSchema(df, config).errors
    /\ pc' = "raised"
    /\ UNCHANGED << loader, started, previous, other, config, self_quality_report, clock, calls, df, original_df, df_clean,
                    df_typed, df_deduped, df_final, anomalies_df, quality_report,
                    aggregated_data, prior_report, total_in, valid_in, scoring >>

\* line 373
StepClean ==
    /\ pc = "validated"
    /\ df_clean' = CleanNullValues(df)
    /\ pc' = "cleaned"
    /\ UNCHANGED << loader, started, previous, other, config, self_quality_report, clock, calls, df, original_df,
                    df_typed, df_deduped, df_final, anomalies_df, quality_report,
                    aggregated_data, errors, prior_report, total_in, valid_in, scoring >>

\* line 376; the clock may advance, by one tick at most, between the two
\* readings of datetime.now() (lines 159 and 162)
StepTypes ==
    /\ pc = "cleaned"
    /\ \E now2 \in {clock, clock + 1} :
        /\ now2 <= MaxClock
        /\ df_typed' = ValidateColumnTypes(df_clean, config, clock, now2)
        /\ clock' = now2
    /\ pc' = "typed"
    /\ UNCHANGED << loader, started, previous, other, config, self_quality_report, calls, df, original_df, df_clean,
                    df_deduped, df_final, anomalies_df, quality_report,
                    aggregated_data, errors, prior_report, total_in, valid_in, scoring >>

\* line 379
StepDuplicates ==
    /\ pc = "typed"
    /\ df_deduped' = DetectDuplicates(df_typed, config)
    /\ pc' = "deduped"
    /\ UNCHANGED << loader, started, previous, other, config, self_quality_report, clock, calls, df, original_df, df_clean,
                    df_typed, df_final, anomalies_df, quality_report,
                    aggregated_data, errors, prior_report, total_in, valid_in, scoring >>

\* line 382; detect_duplicates returned df_typed itself when it removed
\* nothing, and the column added in place then shows in df_typed too
StepAnomalies ==
    /\ pc = "deduped"
    /\ LET r == DetectAnomalies(df_deduped, config, clock)
       IN  /\ df_final' = r.normal
           /\ anomalies_df' = r.anomalies
           /\ df_deduped' = r.input
           /\ df_typed' = IF df_typed = df_deduped THEN r.input ELSE df_typed
    /\ pc' = "split"
    /\ UNCHANGED << loader, started, previous, other, config, self_quality_report, clock, calls, df, original_df, df_clean,
                    quality_report, aggregated_data, errors, prior_report,
                    total_in, valid_in, scoring >>

\* line 385; line 290 stores the report in the processor
StepReport ==
    /\ pc = "split"
    /\ LET report == GenerateQualityReport(original_df, df_final, anomalies_df, config, clock)
       IN  /\ quality_report' = report
           /\ self_quality_report' = report
    /\ pc' = "reported"
    /\ UNCHANGED << loader, started, previous, other, config, clock, calls, df, original_df, df_clean, df_typed, df_deduped,
                    df_final, anomalies_df, aggregated_data, errors, prior_report,
                    total_in, valid_in, scoring >>

\* line 301 rewrites transaction_date of the frame it was given in place;
\* with handle_outliers off that frame is df_deduped (and df_typed) itself
AfterDays(frame) ==
    IF ~config.handle_outliers /\ frame = df_final THEN WithDays(df_final) ELSE frame

\* variant: the rows are stamped with the report stored before the call began
StepAggregateStaleScore ==
    /\ pc = "reported"
    /\ ~AggregationRaises(df_final)
    /\ aggregated_data' = AggregateDailyTransactions(WithDays(df_final), prior_report, clock)
    /\ df_final' = WithDays(df_final)
    /\ df_deduped' = AfterDays(df_deduped)
    /\ df_typed' = AfterDays(df_typed)
    /\ pc' = "done"
    /\ UNCHANGED << loader, started, previous, other, config, self_quality_report, clock, calls, df, original_df, df_clean,
                    anomalies_df, quality_report, errors, prior_report,
                    total_in, valid_in, scoring >>

\* line 388, the aggregation completes and the call returns (line 394)
StepAggregate ==
    /\ pc = "reported"
    /\ ~AggregationRaises(df_final)
    /\ aggregated_data' = AggregateDailyTransactions(WithDays(df_final), self_quality_report, clock)
    /\ df_final' = WithDays(df_final)
    /\ df_deduped' = AfterDays(df_deduped)
    /\ df_typed' = AfterDays(df_typed)
    /\ pc' = "done"
    /\ UNCHANGED << loader, started, previous, other, config, self_quality_report, clock, calls, df, original_df, df_clean,
                    anomalies_df, quality_report, errors, prior_report,
                    total_in, valid_in, scoring >>

\* line 388, the aggregation raises at line 318
StepAggregateRaises ==
    /\ pc = "reported"
    /\ AggregationRaises(df_final)
    /\ df_final' = WithDays(df_final)
    /\ df_deduped' = AfterDays(df_deduped)
    /\ df_typed' = AfterDays(df_typed)
    /\ errors' = << [msg |-> "Length mismatch", cols |-> <<>>] >>
    /\ pc' = "raised"
    /\ UNCHANGED << loader, started, previous, other, config, self_quality_report, clock, calls, df, original_df, df_clean,
                    anomalies_df, quality_report, aggregated_data, prior_report,
                    total_in, valid_in, scoring >>

Stages ==
    \/ SchemaValid
    \/ SchemaInvalid
    \/ StepClean
    \/ StepTypes
    \/ StepDuplicates
    \/ StepAnomalies
    \/ StepReport
    \/ StepAggregate
    \/ StepAggregateRaises

CallOnce == Call(Batches(Transactions, MaxBatch), 1)

Next == CallOnce \/ Stages

Spec == Init /\ [][Next]_vars

CallStage == Call(Batches(StageTransactions, MaxStageBatch), 1)

NextStages == CallStage \/ Stages

SpecStages == InitStages /\ [][NextStages]_vars

\* one processor called up to MaxCalls times, each call after the previous
\* one returned or raised
CallAgain == Call(Batches(CallTransactions, MaxCallBatch), MaxCalls)

NextCalls == CallAgain \/ Stages

SpecCalls == Init /\ [][NextCalls]_vars

(***************************************************************************)
(* One call on a worked example.                                           *)
(***************************************************************************)
CallExample == Call(ExampleBatches, 1)

NextExamples == CallExample \/ Stages

SpecExamples == Init /\ [][NextExamples]_vars

(***************************************************************************)
(* One processor run up to MaxCalls times on batches with and without the  *)
(* optional columns, the outcome of the call before being kept.            *)
(***************************************************************************)
RunBatches ==
    { Frame(cols, [i \in 1..Len(rows) |-> [Project(rows[i], cols) EXCEPT !.idx = i - 1]]) :
        rows \in RunRows, cols \in {Required, Required \cup OptionalColumns} }

CallRun == CallKeeping(RunBatches, MaxCalls)

NextRuns == CallRun \/ Stages

SpecRuns == Init /\ [][NextRuns]_vars

(***************************************************************************)
(* Two processors, each constructed with a configuration of its own and    *)
(* called once; after any step the scheduler may let the other one run.    *)
(* They share the clock and nothing else.                                  *)
(***************************************************************************)
FreshProcessor(cfg) ==
    [ config |-> cfg, self_quality_report |-> NoReport, calls |-> 0,
      pc |-> "idle", df |-> EmptyFrame, original_df |-> EmptyFrame, df_clean |-> EmptyFrame,
      df_typed |-> EmptyFrame, df_deduped |-> EmptyFrame, df_final |-> EmptyFrame,
      anomalies_df |-> EmptyFrame, quality_report |-> NoReport,
      aggregated_data |-> {}, errors |-> <<>>,
      prior_report |-> NoReport, started |-> Now0 ]

InitTwo ==
    /\ Constructed(Configs)
    /\ other \in {FreshProcessor(cfg) : cfg \in Configs}
    /\ LoaderIdle

\* the batches of the two runs
TwoBatches ==
    { Frame(Required, [i \in 1..Len(rows) |-> [Project(rows[i], Required) EXCEPT !.idx = i - 1]]) :
        rows \in RunRows }
    \cup { Frame(Required \cup OptionalColumns, << [Nominal EXCEPT !.idx = 0] >>) }

CallOne == Call(TwoBatches, 1)

\* variant: the two processors hold one quality_report in common
SwitchSharingReport ==
    /\ other' = [ProcessorState EXCEPT !.self_quality_report = other.self_quality_report]
    /\ config' = other.config
    /\ calls' = other.calls
    /\ pc' = other.pc
    /\ df' = other.df
    /\ original_df' = other.original_df
    /\ df_clean' = other.df_clean
    /\ df_typed' = other.df_typed
    /\ df_deduped' = other.df_deduped
    /\ df_final' = other.df_final
    /\ anomalies_df' = other.anomalies_df
    /\ quality_report' = other.quality_report
    /\ aggregated_data' = other.aggregated_data
    /\ errors' = other.errors
    /\ prior_report' = other.prior_report
    /\ started' = other.started
    /\ UNCHANGED << loader, self_quality_report, clock, previous, total_in, valid_in, scoring >>

\* the processor that was taking steps is suspended, the other one resumes
Switch ==
    /\ other' = ProcessorState
    /\ config' = other.config
    /\ self_quality_report' = other.self_quality_report
    /\ calls' = other.calls
    /\ pc' = other.pc
    /\ df' = other.df
    /\ original_df' = other.original_df
    /\ df_clean' = other.df_clean
    /\ df_typed' = other.df_typed
    /\ df_deduped' = other.df_deduped
    /\ df_final' = other.df_final
    /\ anomalies_df' = other.anomalies_df
    /\ quality_report' = other.quality_report
    /\ aggregated_data' = other.aggregated_data
    /\ errors' = other.errors
    /\ prior_report' = other.prior_report
    /\ started' = other.started
    /\ UNCHANGED << loader, clock, previous, total_in, valid_in, scoring >>

NextTwo == CallOne \/ Stages \/ Switch

SpecTwo == InitTwo /\ [][NextTwo]_vars

(***************************************************************************)
(* detect_duplicates and detect_anomalies on their own, applied to the     *)
(* typed frame validate_column_types hands over (lines 376-382).           *)
(***************************************************************************)
InitDetect == InitWith(DetectConfigs)

\* the frames of at most MaxDetectBatch typed records with every column
TypedFrames ==
    UNION { { Frame(Required \cup OptionalColumns, [i \in 1..n |-> [rows[i] EXCEPT !.idx = i - 1]]) :
                rows \in [1..n -> DetectTransactions] } :
            n \in 0..MaxDetectBatch }

ChooseTyped ==
    /\ pc = "idle"
    /\ df_typed' \in TypedFrames
    /\ pc' = "typed"
    /\ UNCHANGED << loader, started, previous, other, config, self_quality_report, clock, calls, df, original_df, df_clean,
                    df_deduped, df_final, anomalies_df, quality_report,
                    aggregated_data, errors, prior_report, total_in, valid_in, scoring >>

NextDetect == ChooseTyped \/ StepDuplicates \/ StepAnomalies

SpecDetect == InitDetect /\ [][NextDetect]_vars

(***************************************************************************)
(* load_to_mysql of the Airflow DAG: the rows of the processed file are    *)
(* inserted one statement at a time into daily_bank_aggregates; the task   *)
(* is executed again after a failure (default_args: retries) or a re-run.  *)
(***************************************************************************)
\* default_args['retries']
Retries == 2

\* the (bank_id, transaction_date) groups transform_data can write, in the
\* order groupby leaves them; transaction_date is the parsed timestamp
FileKeys ==
    << [bank_id |-> "B1", transaction_date |-> 2],
       [bank_id |-> "B1", transaction_date |-> 3],
       [bank_id |-> "B1", transaction_date |-> 4],
       [bank_id |-> "B2", transaction_date |-> 2],
       [bank_id |-> "B2", transaction_date |-> 3],
       [bank_id |-> "B2", transaction_date |-> 4] >>

\* one row of daily_aggregates as read back by pd.read_csv
FileRow(key) ==
    [ bank_id |-> key.bank_id, transaction_date |-> key.transaction_date,
      total_volume |-> Amount(100 * key.transaction_date),
      transaction_count |-> key.transaction_date ]

\* the processed files: one row per group, at most MaxFileRows rows
ProcessedFiles ==
    { FilterBy([i \in 1..Len(FileKeys) |-> FileRow(FileKeys[i])], mask) :
        mask \in { m \in [1..Len(FileKeys) -> BOOLEAN] : CountTrue(m) <= MaxFileRows } }

\* a value stored in a DATE column keeps its day
AsDate(timestamp) == timestamp \div TicksPerDay

\* the table row a file row becomes
TableRow(id, row) ==
    [ id |-> id, bank_id |-> row.bank_id, transaction_date |-> AsDate(row.transaction_date),
      total_volume |-> row.total_volume, transaction_count |-> row.transaction_count ]

\* UNIQUE KEY unique_bank_date (bank_id, transaction_date)
ViolatesUniqueKey(table, new) ==
    \E i \in 1..Len(table) :
        /\ table[i].bank_id = new.bank_id
        /\ table[i].transaction_date = new.transaction_date

\* variant: the statement replaces the row that holds the key
InsertReplace(table, id, row) ==
    LET new == TableRow(id, row)
    IN  IF ViolatesUniqueKey(table, new)
        THEN [i \in 1..Len(table) |->
                 IF table[i].bank_id = new.bank_id /\ table[i].transaction_date = new.transaction_date
                 THEN new ELSE table[i]]
        ELSE Append(table, new)

\* INSERT IGNORE: a row that violates the unique key is skipped
InsertIgnore(table, id, row) ==
    LET new == TableRow(id, row)
    IN  IF ViolatesUniqueKey(table, new) THEN table ELSE Append(table, new)

\* transform_data has written a processed file and pushed its path
FileWritten ==
    /\ load_pc = "idle"
    /\ processed_data' \in ProcessedFiles
    /\ load_pc' = "ready"
    /\ UNCHANGED << daily_bank_aggregates, auto_increment, load_row, try_number >>
    /\ UNCHANGED << config, self_quality_report, clock, calls, pc, df, original_df, df_clean,
                    df_typed, df_deduped, df_final, anomalies_df, quality_report,
                    aggregated_data, errors, prior_report, started, previous, other,
                    total_in, valid_in, scoring >>

\* an execution begins: the file is read, CREATE TABLE IF NOT EXISTS leaves
\* an existing table as it is
LoadBegin ==
    /\ load_pc \in {"ready", "failed", "success"}
    /\ try_number < MaxLoads
    /\ try_number' = try_number + 1
    /\ load_row' = 1
    /\ load_pc' = "loading"
    /\ UNCHANGED << daily_bank_aggregates, auto_increment, processed_data >>
    /\ UNCHANGED << config, self_quality_report, clock, calls, pc, df, original_df, df_clean,
                    df_typed, df_deduped, df_final, anomalies_df, quality_report,
                    aggregated_data, errors, prior_report, started, previous, other,
                    total_in, valid_in, scoring >>

\* one statement of the loop, committed on its own; an ignored row uses up
\* a value of the id column too
LoadInsert ==
    /\ load_pc = "loading"
    /\ load_row <= Len(processed_data)
    /\ daily_bank_aggregates' =
           InsertIgnore(daily_bank_aggregates, auto_increment, processed_data[load_row])
    /\ auto_increment' = auto_increment + 1
    /\ load_row' = load_row + 1
    /\ UNCHANGED << processed_data, load_pc, try_number >>
    /\ UNCHANGED << config, self_quality_report, clock, calls, pc, df, original_df, df_clean,
                    df_typed, df_deduped, df_final, anomalies_df, quality_report,
                    aggregated_data, errors, prior_report, started, previous, other,
                    total_in, valid_in, scoring >>

\* a statement raises (the connection is lost, say): the execution ends
\* with the rows inserted so far in the table
LoadFail ==
    /\ load_pc = "loading"
    /\ load_pc' = "failed"
    /\ UNCHANGED << daily_bank_aggregates, auto_increment, processed_data, load_row, try_number >>
    /\ UNCHANGED << config, self_quality_report, clock, calls, pc, df, original_df, df_clean,
                    df_typed, df_deduped, df_final, anomalies_df, quality_report,
                    aggregated_data, errors, prior_report, started, previous, other,
                    total_in, valid_in, scoring >>

\* the loop ends
LoadSucceed ==
    /\ load_pc = "loading"
    /\ load_row > Len(processed_data)
    /\ load_pc' = "success"
    /\ UNCHANGED << daily_bank_aggregates, auto_increment, processed_data, load_row, try_number >>
    /\ UNCHANGED << config, self_quality_report, clock, calls, pc, df, original_df, df_clean,
                    df_typed, df_deduped, df_final, anomalies_df, quality_report,
                    aggregated_data, errors, prior_report, started, previous, other,
                    total_in, valid_in, scoring >>

InitLoad == InitWith({DefaultConfig})

NextLoad == FileWritten \/ LoadBegin \/ LoadInsert \/ LoadFail \/ LoadSucceed

SpecLoad == InitLoad /\ [][NextLoad]_vars

(***************************************************************************)
(* The score computation of generate_quality_report on its own, over the   *)
(* record counts of larger batches than the pipeline model can enumerate.  *)
(***************************************************************************)
InitReport ==
    /\ Init
    /\ config = DefaultConfig

ChooseCounts ==
    /\ pc = "idle"
    /\ total_in = 0 /\ valid_in = 0 /\ scoring = NoScoring
    /\ \E total \in 0..MaxTotal :
        \E excluded \in 0..MaxExcluded :
            /\ excluded <= total
            /\ total_in' = total
            /\ valid_in' = total - excluded
    /\ pc' = "counted"
    /\ UNCHANGED << loader, started, previous, other, config, self_quality_report, clock, calls, df, original_df, df_clean,
                    df_typed, df_deduped, df_final, anomalies_df, quality_report,
                    aggregated_data, errors, prior_report, scoring >>

ScoreReport ==
    /\ pc = "counted"
    /\ scoring' = QualityScoring(valid_in, total_in)
    /\ pc' = "scored"
    /\ UNCHANGED << loader, started, previous, other, config, self_quality_report, clock, calls, df, original_df, df_clean,
                    df_typed, df_deduped, df_final, anomalies_df, quality_report,
                    aggregated_data, errors, prior_report, total_in, valid_in >>

NextReport == ChooseCounts \/ ScoreReport

SpecReport == InitReport /\ [][NextReport]_vars

(***************************************************************************)
(* Properties.                                                             *)
(***************************************************************************)
RowsOf(frame) == {frame.rows[i] : i \in 1..Len(frame.rows)}

\* the record of the caller's batch a row stems from
OriginalOf(r) == original_df.rows[r.idx + 1]

SchemaViolated(frame) == IsEmpty(frame) \/ ~(Required \subseteq frame.cols)

\* C1: process_banking_data raises only when validate_schema fails: a call on
\* a non-empty batch that has all required columns never ends in an error.
C1_RaisesOnlyOnSchemaFailure == pc = "raised" => SchemaViolated(original_df)

\* C2: a call on a batch that is empty or lacks a required column raises with
\* one error per violated check ("Dataframe is empty" for an empty batch)
\* before any other stage has run: no frame, report, aggregate or anomaly is
\* produced and the processor's stored report is the one it had before the call.
C2_SchemaFailureIsFatal ==
    (calls > 0 /\ pc # "start" /\ SchemaViolated(df)) =>
        /\ pc = "raised"
        /\ Len(errors) = (IF Required \subseteq df.cols THEN 0 ELSE 1)
                         + (IF IsEmpty(df) THEN 1 ELSE 0)
        /\ IsEmpty(df) <=> \E i \in 1..Len(errors) : errors[i].msg = "Dataframe is empty"
        /\ ~(Required \subseteq df.cols) <=>
               \E i \in 1..Len(errors) :
                   /\ errors[i].msg = "Missing required columns"
                   /\ {errors[i].cols[j] : j \in 1..Len(errors[i].cols)} = Required \ df.cols
        /\ df_clean = EmptyFrame /\ df_typed = EmptyFrame /\ df_deduped = EmptyFrame
        /\ df_final = EmptyFrame /\ anomalies_df = EmptyFrame
        /\ quality_report = NoReport /\ aggregated_data = {}
        /\ self_quality_report = prior_report

C2_Witness ==
    /\ pc = "raised"
    /\ IsEmpty(df)
    /\ prior_report.set
    /\ self_quality_report = prior_report

\* C3: every record in the normal set or the anomaly set has a rounded amount
\* strictly greater than 0 and at most max_transaction_amount, and no
\* aggregate row counts an amount that is not positive.
C3_AmountsInRange ==
    /\ \A r \in RowsOf(df_final) \cup RowsOf(anomalies_df) :
        /\ r.amount.k = "num"
        /\ r.amount.v > 0
        /\ r.amount.v <= config.max_transaction_amount
    /\ \A a \in aggregated_data : a.min_transaction_value > 0

\* C4: no record leaving validate_column_types has an undefined
\* transaction_date, whatever the other records of the batch are.
C4_NoUndefinedDate == \A r \in RowsOf(df_typed) : ~IsNullDate(r.transaction_date)

\* C5: a record whose transaction_date is later than the processing time is
\* never in the normal set, in the anomaly set or in an aggregate row.
C5_NoFutureRecord ==
    /\ \A r \in RowsOf(df_final) \cup RowsOf(anomalies_df) :
        ~IsFuture(OriginalOf(r).transaction_date, clock)
    /\ \A a \in aggregated_data : a.transaction_date.v * TicksPerDay <= clock

C5_Witness ==
    /\ pc = "done"
    /\ aggregated_data # {}
    /\ \E o \in RowsOf(original_df) : IsFuture(o.transaction_date, clock)

\* C6: the report's quality_score is valid_records / total_records * 100
\* rounded to two decimals (0 when total_records is 0), total_records being
\* the size of the original batch and valid_records that of the normal set.
C6_QualityScore ==
    quality_report.set =>
        /\ quality_report.total_records = Len(original_df.rows)
        /\ quality_report.valid_records = Len(df_final.rows)
        /\ IF quality_report.total_records > 0
           THEN 2 * Abs(quality_report.quality_score * quality_report.total_records
                        - 10000 * quality_report.valid_records)
                    <= quality_report.total_records
           ELSE quality_report.quality_score = 0

C6_Witness ==
    /\ quality_report.set
    /\ (10000 * quality_report.valid_records) % quality_report.total_records # 0
    /\ quality_report.quality_score * quality_report.total_records
           > 10000 * quality_report.valid_records

\* C7: the quality_level of a report agrees with its quality_score field:
\* EXCELLENT iff score >= 95, GOOD iff 85 <= score < 95, ACCEPTABLE iff
\* 75 <= score < 85, POOR iff score < 75.
C7_LevelAgreesWithScore ==
    pc = "scored" =>
        /\ scoring.quality_level = "EXCELLENT" <=> scoring.quality_score >= ExcellentMin
        /\ scoring.quality_level = "GOOD" <=>
               (scoring.quality_score >= GoodMin /\ scoring.quality_score < ExcellentMin)
        /\ scoring.quality_level = "ACCEPTABLE" <=>
               (scoring.quality_score >= AcceptableMin /\ scoring.quality_score < GoodMin)
        /\ scoring.quality_level = "POOR" <=> scoring.quality_score < AcceptableMin

SameKey(r, q) ==
    /\ r.bank_id = q.bank_id
    /\ r.customer_id = q.customer_id
    /\ r.amount = q.amount
    /\ r.transaction_date = q.transaction_date

FirstOccurrence(rows, i) == \A j \in 1..(i - 1) : ~SameKey(rows[j], rows[i])

\* C8: with remove_duplicates on, detect_duplicates outputs, in input order,
\* exactly the records whose identity key occurs in no earlier record; with
\* remove_duplicates off it returns the batch unchanged.
C8_KeepsFirstOccurrences ==
    pc = "deduped" =>
        IF config.remove_duplicates
        THEN /\ df_deduped.cols = df_typed.cols
             /\ RowsOf(df_deduped) =
                    {df_typed.rows[i] : i \in {j \in 1..Len(df_typed.rows) :
                                                    FirstOccurrence(df_typed.rows, j)}}
             /\ \A k, l \in 1..Len(df_deduped.rows) :
                    k < l => df_deduped.rows[k].idx < df_deduped.rows[l].idx
        ELSE df_deduped = df_typed

C8_Witness ==
    /\ pc = "deduped"
    /\ config.remove_duplicates
    /\ Len(df_typed.rows) = 3
    /\ Len(df_deduped.rows) = 2
    /\ SameKey(df_typed.rows[1], df_typed.rows[3])

\* C9: deduplication is idempotent: applied to its own output it returns the
\* same records in the same order and finds no duplicate.
C9_DeduplicationIdempotent ==
    pc = "deduped" =>
        /\ DetectDuplicates(df_deduped, config) = df_deduped
        /\ config.remove_duplicates =>
            /\ CountTrue(Duplicated(df_deduped)) = 0
            /\ \A k, l \in 1..Len(df_deduped.rows) :
                   k # l => ~SameKey(df_deduped.rows[k], df_deduped.rows[l])

C9_Witness ==
    /\ pc = "deduped"
    /\ config.remove_duplicates
    /\ Len(df_typed.rows) = 3
    /\ Len(df_deduped.rows) = 1

Base(r) == [r EXCEPT !.amount_zscore = NoZ, !.anomaly_type = NoneVal, !.detected_at = 0]

\* C10: detect_anomalies splits the deduplicated batch into a normal set and
\* an anomaly set that are disjoint and together hold every input record
\* exactly once; with handle_outliers off the anomaly set is empty.
C10_AnomalyPartition ==
    pc = "split" =>
        /\ IdxOf(df_final) \cap IdxOf(anomalies_df) = {}
        /\ IdxOf(df_final) \cup IdxOf(anomalies_df) = IdxOf(df_deduped)
        /\ Len(df_final.rows) + Len(anomalies_df.rows) = Len(df_deduped.rows)
        /\ {Base(r) : r \in RowsOf(df_final) \cup RowsOf(anomalies_df)}
               = {Base(r) : r \in RowsOf(df_deduped)}
        /\ ~config.handle_outliers => anomalies_df.rows = <<>>

C10_Witness ==
    /\ pc = "split"
    /\ Len(df_final.rows) >= 1
    /\ Len(anomalies_df.rows) >= 1
    /\ \E r \in RowsOf(df_final), q \in RowsOf(anomalies_df) : r.bank_id = q.bank_id

\* whether amount x is above the threshold t in its bank's partition of
\* frame, by the textbook formulas: mean = S / n and sample variance
\* (sum x_i^2 - S^2 / n) / (n - 1), over the records sharing bank_id b
IsOutlier(frame, b, x, t) ==
    LET rows == frame.rows
        same == [i \in 1..Len(rows) |-> rows[i].bank_id = b]
        n    == CountTrue(same)
        S    == SumSeq([i \in 1..Len(rows) |-> IF same[i] THEN rows[i].amount.v ELSE 0])
        SS   == SumSeq([i \in 1..Len(rows) |->
                            IF same[i] THEN rows[i].amount.v * rows[i].amount.v ELSE 0])
        nvar == n * SS - S * S
        dev  == n * x - S
    IN  /\ n >= 2
        /\ nvar > 0
        /\ dev * dev * (n - 1) * t.den * t.den > t.num * t.num * n * nvar

\* the records of frame whose bank_id is b
OfBank(frame, b) ==
    Frame(frame.cols, FilterBy(frame.rows, [i \in 1..Len(frame.rows) |-> frame.rows[i].bank_id = b]))

\* C11: with handle_outliers on, a record is in the anomaly set iff its
\* z-score |amount - mean| / std over the records of its bank (sample std)
\* is strictly above anomaly_threshold_std, the z-score being 0 when that std
\* is 0 or undefined; a record at the threshold is normal, and the records of
\* other banks do not change the decision.
C11_AnomalousIffAboveThreshold ==
    (pc = "split" /\ config.handle_outliers) =>
        /\ \A r \in RowsOf(df_deduped) :
            LET above == IsOutlier(df_deduped, r.bank_id, r.amount.v, config.anomaly_threshold_std)
            IN  /\ r.idx \in IdxOf(anomalies_df) <=> above
                /\ r.idx \in IdxOf(df_final) <=> ~above
        /\ \A r \in RowsOf(df_deduped) :
            LET alone == DetectAnomalies(OfBank(df_deduped, r.bank_id), config, clock)
            IN  r.idx \in IdxOf(anomalies_df) <=> r.idx \in IdxOf(alone.anomalies)

\* a record exactly at the threshold is normal while a record of the same
\* bank is anomalous
C11_Witness ==
    /\ pc = "split"
    /\ config.handle_outliers
    /\ \E r \in RowsOf(df_final), q \in RowsOf(anomalies_df) :
        /\ r.bank_id = q.bank_id
        /\ r.amount_zscore = NoZ
        /\ LET t == config.anomaly_threshold_std
               z == ZScore(r.amount.v, GroupAmounts(df_deduped.rows, r.bank_id))
           IN  z.num * t.den * t.den = t.num * t.num * z.den

\* the caller's batch holds exactly the records rows (with its own columns)
CalledWith(rows) ==
    /\ Required \subseteq original_df.cols
    /\ original_df.rows = [i \in 1..Len(rows) |-> Project(rows[i], original_df.cols)]

\* C12: with the default threshold 3.0, in the same-bank group of nineteen
\* records of mean 100 and std 10 plus one record of amount 500, the record
\* of 500 is the anomaly set, the other nineteen are the normal set, and the
\* aggregates count those nineteen only.
C12_OutlierOfTwenty ==
    (config = DefaultConfig /\ CalledWith(GroupOfTwenty(500))) =>
        /\ pc \in {"split", "reported", "done", "raised"} =>
            /\ IdxOf(anomalies_df) = {19}
            /\ \A r \in RowsOf(anomalies_df) : r.amount = Amount(500)
            /\ IdxOf(df_final) = 0..18
        /\ pc = "done" =>
            \E a \in aggregated_data :
                /\ aggregated_data = {a}
                /\ a.transaction_count = 19
                /\ a.total_volume = 19 * Amount(100).v
                /\ a.max_transaction_value = Amount(110).v

C12_Witness ==
    /\ pc = "done"
    /\ config = DefaultConfig
    /\ CalledWith(GroupOfTwenty(500))
    /\ Len(anomalies_df.rows) = 1
    /\ Cardinality(aggregated_data) = 1

\* C13: with the default configuration, of the three records of one bank and
\* day with amounts 100.00, 100.00, 5000.00 and customers C1, C1, C2 the
\* second is removed as a duplicate, none is an anomaly, and the one
\* aggregate row has total_volume 5100.00, transaction_count 2,
\* unique_customers 2 and avg_value_per_customer 2550.00.
C13_ThreeRecordExample ==
    (config = DefaultConfig /\ CalledWith(ThreeRecords(Customer(1), 5000, Ts(2)))) =>
        /\ pc \in {"deduped", "split", "reported", "done", "raised"} =>
            IdxOf(df_deduped) = {0, 2}
        /\ pc \in {"split", "reported", "done", "raised"} =>
            /\ anomalies_df.rows = <<>>
            /\ IdxOf(df_final) = {0, 2}
        /\ pc \in {"reported", "done", "raised"} =>
            /\ quality_report.duplicate_records = 1
            /\ quality_report.anomaly_count = 0
        /\ pc = "done" =>
            \E a \in aggregated_data :
                /\ aggregated_data = {a}
                /\ a.total_volume = Amount(5100).v
                /\ a.transaction_count = 2
                /\ a.unique_customers = 2
                /\ a.avg_value_per_customer = Amount(2550).v

C13_Witness ==
    /\ pc = "done"
    /\ config = DefaultConfig
    /\ CalledWith(ThreeRecords(Customer(1), 5000, Ts(2)))
    /\ Len(df_typed.rows) = 3
    /\ Len(df_final.rows) = 2
    /\ Cardinality(aggregated_data) = 1

RECURSIVE SumCounts(_, _)
SumCounts(counts, types) ==
    IF types = {} THEN 0
    ELSE LET ty == CHOOSE t \in types : TRUE
         IN  counts[ty] + SumCounts(counts, types \ {ty})

\* the (bank_id, day) pairs of the records of frame
BankDays(frame) == {<<r.bank_id, ToDay(r.transaction_date)>> : r \in RowsOf(frame)}

\* C14: once a call on a batch with a valid schema has ended, the aggregate
\* rows are one per distinct (bank_id, transaction_date) pair of the normal
\* set, and for a batch that carries transaction_type the counts of each
\* row's transaction_type_breakdown sum to its transaction_count.
C14_OneRowPerBankDay ==
    (pc \in {"done", "raised"} /\ ~SchemaViolated(original_df)) =>
        /\ \A a \in aggregated_data :
            "transaction_type" \in original_df.cols =>
                SumCounts(a.transaction_type_breakdown, DOMAIN a.transaction_type_breakdown)
                    = a.transaction_count
        /\ {<<a.bank_id, a.transaction_date>> : a \in aggregated_data} = BankDays(df_final)
        /\ Cardinality(aggregated_data) = Cardinality(BankDays(df_final))

\* C15 as stated: every aggregate row has avg_transactions_per_customer
\* equal to transaction_count / unique_customers and avg_value_per_customer
\* equal to total_volume / unique_customers (0 when unique_customers is 0),
\* and no statistic is undefined, the std of a one-record group being 0.
C15_DerivedRatiosExact ==
    \A a \in aggregated_data :
        /\ IF a.unique_customers = 0
           THEN a.avg_transactions_per_customer = 0 /\ a.avg_value_per_customer = 0
           ELSE /\ a.avg_transactions_per_customer * a.unique_customers
                       = a.transaction_count * 100
                /\ a.avg_value_per_customer * a.unique_customers = a.total_volume
        /\ a.std_transaction_value.k = "num"
        /\ a.transaction_count = 1 => a.std_transaction_value = ZeroStd

\* C15: every aggregate row has avg_transactions_per_customer equal to
\* transaction_count / unique_customers and avg_value_per_customer equal to
\* total_volume / unique_customers, each rounded to two decimals (0 when
\* unique_customers is 0), and no statistic is undefined, the std of a
\* one-record group being 0.
C15_DerivedRatiosRounded ==
    \A a \in aggregated_data :
        /\ IF a.unique_customers = 0
           THEN a.avg_transactions_per_customer = 0 /\ a.avg_value_per_customer = 0
           ELSE /\ 2 * Abs(a.avg_transactions_per_customer * a.unique_customers
                           - a.transaction_count * 100) <= a.unique_customers
                /\ a.avg_value_per_customer % CurrencyUnit = 0
                /\ 2 * Abs(a.avg_value_per_customer * a.unique_customers - a.total_volume)
                       <= a.unique_customers * CurrencyUnit
        /\ a.std_transaction_value.k = "num"
        /\ a.transaction_count = 1 => a.std_transaction_value = ZeroStd
        /\ a.transaction_count > 1 =>
               (a.std_transaction_value = ZeroStd
                    <=> a.min_transaction_value = a.max_transaction_value)

\* a row whose value per customer is not a whole number of cents
C15_Witness ==
    /\ pc = "done"
    /\ \E a \in aggregated_data :
        /\ a.unique_customers = 3
        /\ a.total_volume % (3 * CurrencyUnit) # 0
        /\ a.avg_value_per_customer * 3 # a.total_volume
        /\ a.std_transaction_value.k = "num"
        /\ a.std_transaction_value # ZeroStd

\* C16: whatever calls came before on the same processor, every aggregate
\* row a successful call returns carries the quality_score of the report of
\* that same call as its data_quality_score.
C16_ScoreOfSameCall ==
    pc = "done" =>
        /\ quality_report.set
        /\ quality_report.total_records = Len(original_df.rows)
        /\ \A a \in aggregated_data : a.data_quality_score = quality_report.quality_score

\* a call that returns rows with a score that is neither the default nor the
\* score stored by the call before, which had failed in the aggregator
C16_Witness ==
    /\ pc = "done"
    /\ aggregated_data # {}
    /\ previous.pc = "raised"
    /\ prior_report.set
    /\ prior_report.quality_score # quality_report.quality_score
    /\ quality_report.quality_score # 10000

\* what a call of processor state p returns or raises, without the fields
\* that hold the processing time
OutcomeOf(p) ==
    [ raised     |-> p.pc = "raised",
      errors     |-> p.errors,
      aggregates |-> {[a EXCEPT !.processed_at = 0] : a \in p.aggregated_data},
      report     |-> [p.quality_report EXCEPT !.processing_timestamp = 0],
      anomalies  |-> Frame(p.anomalies_df.cols,
                           [i \in 1..Len(p.anomalies_df.rows) |->
                               [p.anomalies_df.rows[i] EXCEPT !.detected_at = 0]]) ]

\* the current call has ended and ran on the batch of the call before it
RanAgain ==
    /\ pc \in {"done", "raised"}
    /\ previous.pc \in {"done", "raised"}
    /\ previous.df = df

\* C17 as stated: a call on the batch of the call before it, on the same or
\* on a new processor and at the same or a later time, has the same outcome
\* but for processed_at, detected_at and processing_timestamp.
C17_Idempotent == RanAgain => OutcomeOf(ProcessorState) = OutcomeOf(previous)

\* C17: a call on the batch of the call before it, on the same or on a new
\* processor and at the same or a later time, has the same outcome but for
\* processed_at, detected_at and processing_timestamp, provided no record of
\* the batch is dated after the time the earlier call began.
C17_IdempotentWithoutFutureRecords ==
    (RanAgain /\ \A r \in RowsOf(df) : ~IsFuture(ToDatetime(r.transaction_date), previous.started)) =>
        OutcomeOf(ProcessorState) = OutcomeOf(previous)

\* a second run at a later time, after a first run that stored another score
\* than the default, both returning aggregates
C17_Witness ==
    /\ RanAgain
    /\ \A r \in RowsOf(df) : ~IsFuture(ToDatetime(r.transaction_date), previous.started)
    /\ clock > previous.started
    /\ pc = "done"
    /\ aggregated_data # {}
    /\ quality_report.quality_score # 10000
    /\ prior_report = previous.quality_report

\* a step of a stage leaves every batch that exists when it starts as it is
StagePreservesBatches ==
    pc \notin {"idle", "done", "raised"} =>
        /\ df' = df
        /\ original_df' = original_df
        /\ pc \in {"cleaned", "typed", "deduped", "split", "reported"} => df_clean' = df_clean
        /\ pc \in {"typed", "deduped", "split", "reported"} => df_typed' = df_typed
        /\ pc \in {"deduped", "split", "reported"} => df_deduped' = df_deduped
        /\ pc \in {"split", "reported"} => df_final' = df_final /\ anomalies_df' = anomalies_df

\* C18: every stage leaves the batch it was given unchanged (same records,
\* same fields, same values) and yields a new batch, so that the caller's
\* batch is unchanged after process_banking_data.
C18_StagesPreserveInput == [][StagePreservesBatches]_vars

\* no value is missing in bank_id, customer_id and amount of record r
HasCriticalValues(r) == r.bank_id # NoneStr /\ r.customer_id # NoneStr /\ r.amount # NaN

\* C19: clean_null_values outputs, in input order, exactly the input records
\* with no missing bank_id, customer_id and amount; a missing
\* transaction_type becomes 'UNKNOWN', a missing description 'No
\* description', and no other field of a kept record is changed.
C19_CleanNullValues ==
    pc = "cleaned" =>
        /\ df_clean.cols = df.cols
        /\ IdxOf(df_clean) = {r.idx : r \in {q \in RowsOf(df) : HasCriticalValues(q)}}
        /\ \A k, l \in 1..Len(df_clean.rows) :
               k < l => df_clean.rows[k].idx < df_clean.rows[l].idx
        /\ \A r \in RowsOf(df_clean) :
            LET o == df.rows[r.idx + 1]
            IN  /\ r.transaction_id = o.transaction_id
                /\ r.bank_id = o.bank_id
                /\ r.customer_id = o.customer_id
                /\ r.amount = o.amount
                /\ r.transaction_date = o.transaction_date
                /\ r.transaction_type =
                       (IF "transaction_type" \in df.cols /\ o.transaction_type = NoneVal
                        THEN "UNKNOWN" ELSE o.transaction_type)
                /\ r.description =
                       (IF "description" \in df.cols /\ o.description = NoneVal
                        THEN "No description" ELSE o.description)

\* one record is dropped and one that lacks only an optional field is kept
C19_Witness ==
    /\ pc = "cleaned"
    /\ Len(df.rows) = 2
    /\ Len(df_clean.rows) = 1
    /\ \E r \in RowsOf(df_clean) :
        /\ df.rows[r.idx + 1].transaction_type = NoneVal
        /\ r.transaction_type = "UNKNOWN"
    /\ \E o \in RowsOf(df) : o.amount = NaN /\ o.bank_id # NoneStr /\ o.customer_id # NoneStr

\* the outcome of process_banking_data(batch) on a processor of its own with
\* configuration cfg that reads the clock as now1 and now2 in
\* validate_column_types, without the fields that hold the processing time
RunAlone(batch, cfg, now1, now2) ==
    LET schema  == ValidateSchema(batch, cfg)
        typed   == ValidateColumnTypes(CleanNullValues(batch), cfg, now1, now2)
        split   == DetectAnomalies(DetectDuplicates(typed, cfg), cfg, 0)
        report  == GenerateQualityReport(batch, split.normal, split.anomalies, cfg, 0)
    IN  IF ~schema.is_valid
        THEN [ raised |-> TRUE, errors |-> schema.errors, aggregates |-> {},
               report |-> NoReport, anomalies |-> EmptyFrame ]
        ELSE [ raised     |-> AggregationRaises(split.normal),
               errors     |-> IF AggregationRaises(split.normal)
                              THEN << [msg |-> "Length mismatch", cols |-> <<>>] >>
                              ELSE <<>>,
               aggregates |-> IF AggregationRaises(split.normal) THEN {}
                              ELSE AggregateDailyTransactions(WithDays(split.normal), report, 0),
               report     |-> report,
               anomalies  |-> split.anomalies ]

\* processor state p has finished its call with the outcome of a run alone
AsWhenRunAlone(p) ==
    p.pc \in {"done", "raised"} =>
        \E now1 \in p.started..MaxClock, now2 \in p.started..MaxClock :
            /\ now2 \in {now1, now1 + 1}
            /\ OutcomeOf(p) = RunAlone(p.df, p.config, now1, now2)

\* C20: two runs on processors of their own, interleaved stage by stage in
\* any order, each end with the aggregates, report and anomalies of the same
\* run made alone; neither reads or writes the configuration, the stored
\* report or the batches of the other.
C20_InterleavedRunsAreIndependent ==
    /\ AsWhenRunAlone(ProcessorState)
    /\ AsWhenRunAlone(other)
    /\ (pc = "reported" /\ other.pc # "idle") => self_quality_report = quality_report

\* both runs have returned aggregates, with different configurations,
\* batches and scores
C20_Witness ==
    /\ pc = "done"
    /\ other.pc = "done"
    /\ aggregated_data # {}
    /\ other.aggregated_data # {}
    /\ quality_report.quality_score # other.quality_report.quality_score
    /\ config # other.config
    /\ df # other.df

\* the sum of transaction_count over a set of aggregate rows
RECURSIVE TotalCount(_)
TotalCount(rows) ==
    IF rows = {} THEN 0
    ELSE LET a == CHOOSE r \in rows : TRUE
         IN  a.transaction_count + TotalCount(rows \ {a})

\* C22: once a call has returned, the transaction_count of the aggregate
\* rows sums to the valid_records of its report: every record of the normal
\* set is counted in exactly one row.
C22_EveryNormalRecordCounted ==
    pc = "done" => TotalCount(aggregated_data) = quality_report.valid_records

\* C23: in the report of a call that has returned, valid_records plus
\* anomaly_count is the number of records of the deduplicated batch and at
\* most total_records, so valid_records is at most total_records and
\* quality_score lies between 0 and 100.
C23_ReportCountsAddUp ==
    pc = "done" =>
        /\ quality_report.valid_records + quality_report.anomaly_count = Len(df_deduped.rows)
        /\ quality_report.valid_records + quality_report.anomaly_count
               <= quality_report.total_records
        /\ quality_report.valid_records <= quality_report.total_records
        /\ quality_report.quality_score >= 0
        /\ quality_report.quality_score <= 10000

\* a call has returned a report with valid records and an anomaly, for a
\* batch of which an earlier stage had removed a record
C23_Witness ==
    /\ pc = "done"
    /\ quality_report.anomaly_count >= 1
    /\ quality_report.valid_records >= 1
    /\ Len(df_deduped.rows) < quality_report.total_records

\* the number of records of frame whose bank_id is b
PartitionSize(frame, b) == Len(GroupAmounts(frame.rows, b))

FileLoaded ==
    \A i \in 1..Len(processed_data) :
        ViolatesUniqueKey(daily_bank_aggregates, TableRow(0, processed_data[i]))

\* the table holds at most one row per (bank_id, transaction_date)
OneRowPerBankDate(table) ==
    \A i, j \in 1..Len(table) :
        (table[i].bank_id = table[j].bank_id
            /\ table[i].transaction_date = table[j].transaction_date) => i = j

\* C21: however often load_to_mysql is executed for one processed file, and
\* wherever an execution fails, the table holds at most one row per
\* (bank_id, transaction_date), every row already in the table stays in it
\* as it was written, and once the file is loaded no execution adds a row.
C21_RepeatedLoadKeepsRows ==
    [][ /\ OneRowPerBankDate(daily_bank_aggregates')
        /\ \A i \in 1..Len(daily_bank_aggregates) :
              /\ i <= Len(daily_bank_aggregates')
              /\ daily_bank_aggregates'[i] = daily_bank_aggregates[i]
        /\ FileLoaded => daily_bank_aggregates' = daily_bank_aggregates ]_vars

\* the execution after the last retry has ended; the file held two rows of
\* one bank and day, of which the table keeps the first
C21_Witness ==
    /\ load_pc = "success"
    /\ try_number = Retries + 1
    /\ Len(daily_bank_aggregates) >= 2
    /\ Len(processed_data) > Len(daily_bank_aggregates)
    /\ auto_increment > 2 * Len(processed_data)

====
